---- MODULE Spec2Model ----
(***************************************************************************)
(* Model of honeybee_schema/energy/designday.py: the pydantic (v1) models  *)
(* DryBulbCondition, HumidityCondition, WindCondition, ASHRAEClearSky,     *)
(* ASHRAETau and DesignDay, with the operations every BaseModel offers:    *)
(* validation of a mapping (the constructor), serialization (dict()), and   *)
(* attribute assignment.                                                   *)
(*                                                                         *)
(* Floats are fixed-point numbers counted in tenths (1.2 is 12, 70 is 700):*)
(* the only non-integral number of the source is the bound 1.2.            *)
(* A mapping (a Python dict) is a function whose domain is the set of keys *)
(* it holds; a key that is absent is not in the domain.                    *)
(***************************************************************************)
EXTENDS Integers, Sequences, FiniteSets, TLC

VARIABLES cls, input, pc, result, inst, ser, incl, re, nAssign

vars == <<cls, input, pc, result, inst, ser, incl, re, nAssign>>

\* ------------------------------------------------------------------ bounds
\* How far beyond each numeric bound the sampled inputs reach, in tenths.
Margin == 1
\* How many attribute assignments one run performs on an instance.
MaxAssign == 1

\* ------------------------------------------------------------- raw values
Tenths(x) == x * 10

Num(n) == [k |-> "num", n |-> n, s |-> "", b |-> FALSE]
Str(s) == [k |-> "str", n |-> 0, s |-> s, b |-> FALSE]
Bool(b) == [k |-> "bool", n |-> 0, s |-> "", b |-> b]
DateV(n) == [k |-> "date", n |-> n, s |-> "", b |-> FALSE]
\* The default of a required field (Field(...)): never read.
Required == [k |-> "required", n |-> 0, s |-> "", b |-> FALSE]

\* --------------------------------------------------------- field metadata
FloatField(name, required, default, hasGe, ge, hasLe, le) ==
    [name |-> name, kind |-> "float", required |-> required, default |-> default,
     hasGe |-> hasGe, ge |-> ge, hasLe |-> hasLe, le |-> le,
     pattern |-> "", members |-> {}, classes |-> <<>>]

ConstrField(name, pattern, default) ==
    [name |-> name, kind |-> "constr", required |-> FALSE, default |-> Str(default),
     hasGe |-> FALSE, ge |-> 0, hasLe |-> FALSE, le |-> 0,
     pattern |-> pattern, members |-> {}, classes |-> <<>>]

BoolField(name, default) ==
    [name |-> name, kind |-> "bool", required |-> FALSE, default |-> Bool(default),
     hasGe |-> FALSE, ge |-> 0, hasLe |-> FALSE, le |-> 0,
     pattern |-> "", members |-> {}, classes |-> <<>>]

EnumField(name, members) ==
    [name |-> name, kind |-> "enum", required |-> TRUE, default |-> Required,
     hasGe |-> FALSE, ge |-> 0, hasLe |-> FALSE, le |-> 0,
     pattern |-> "", members |-> members, classes |-> <<>>]

\* A field annotated with a model class, or with a Union of model classes.
ModelField(name, classes) ==
    [name |-> name, kind |-> "model", required |-> TRUE, default |-> Required,
     hasGe |-> FALSE, ge |-> 0, hasLe |-> FALSE, le |-> 0,
     pattern |-> "", members |-> {}, classes |-> classes]

\* date: Date, the calendar day of ..datetime.
DateField(name) ==
    [name |-> name, kind |-> "date", required |-> TRUE, default |-> Required,
     hasGe |-> FALSE, ge |-> 0, hasLe |-> FALSE, le |-> 0,
     pattern |-> "", members |-> {}, classes |-> <<>>]

\* name: the identity field DesignDay inherits from NamedEnergyBaseModel.
NameField(name) ==
    [name |-> name, kind |-> "str", required |-> TRUE, default |-> Required,
     hasGe |-> FALSE, ge |-> 0, hasLe |-> FALSE, le |-> 0,
     pattern |-> "", members |-> {}, classes |-> <<>>]

\* ------------------------------------------------------------- the models
\* DryBulbCondition with dry_bulb_max bounded by lt=70 in place of le=70.
DryBulbConditionExclusive ==
    << ConstrField("type", "DryBulbCondition", "DryBulbCondition"),
       FloatField("dry_bulb_max", TRUE, Required, TRUE, Tenths(-90), TRUE, Tenths(70) - 1),
       FloatField("dry_bulb_range", TRUE, Required, TRUE, 0, FALSE, 0) >>

DryBulbCondition ==
    << ConstrField("type", "DryBulbCondition", "DryBulbCondition"),
       FloatField("dry_bulb_max", TRUE, Required, TRUE, Tenths(-90), TRUE, Tenths(70)),
       FloatField("dry_bulb_range", TRUE, Required, TRUE, 0, FALSE, 0) >>

HumidityTypes == {"Wetbulb", "Dewpoint", "HumidityRatio", "Enthalpy"}

HumidityCondition ==
    << ConstrField("type", "HumidityCondition", "HumidityCondition"),
       EnumField("humidity_type", HumidityTypes),
       FloatField("humidity_value", TRUE, Required, FALSE, 0, FALSE, 0),
       FloatField("barometric_pressure", FALSE, Num(Tenths(101325)),
                  TRUE, Tenths(31000), TRUE, Tenths(120000)),
       BoolField("rain", FALSE),
       BoolField("snow_on_ground", FALSE) >>

WindCondition ==
    << ConstrField("type", "WindCondition", "WindCondition"),
       FloatField("wind_speed", TRUE, Required, TRUE, 0, TRUE, Tenths(40)),
       FloatField("wind_direction", FALSE, Num(0), TRUE, 0, TRUE, Tenths(360)) >>

ASHRAEClearSky ==
    << ConstrField("type", "ASHRAEClearSky", "ASHRAEClearSky"),
       DateField("date"),
       FloatField("clearness", TRUE, Required, TRUE, 0, TRUE, 12),
       BoolField("daylight_savings", FALSE) >>

\* ASHRAETau with the type pattern copied from ASHRAEClearSky unchanged.
ASHRAETauCopiedPattern ==
    << ConstrField("type", "ASHRAEClearSky", "ASHRAETau"),
       DateField("date"),
       FloatField("tau_b", TRUE, Required, TRUE, 0, TRUE, 12),
       FloatField("tau_d", TRUE, Required, TRUE, 0, TRUE, Tenths(3)),
       BoolField("daylight_savings", FALSE) >>

\* ASHRAETau with type declared as a plain str, without the pattern.
ASHRAETauPlainType ==
    << [ConstrField("type", "ASHRAETau", "ASHRAETau") EXCEPT !.kind = "str"],
       DateField("date"),
       FloatField("tau_b", TRUE, Required, TRUE, 0, TRUE, 12),
       FloatField("tau_d", TRUE, Required, TRUE, 0, TRUE, Tenths(3)),
       BoolField("daylight_savings", FALSE) >>

ASHRAETau ==
    << ConstrField("type", "ASHRAETau", "ASHRAETau"),
       DateField("date"),
       FloatField("tau_b", TRUE, Required, TRUE, 0, TRUE, 12),
       FloatField("tau_d", TRUE, Required, TRUE, 0, TRUE, Tenths(3)),
       BoolField("daylight_savings", FALSE) >>

DesignDayTypes ==
    {"SummerDesignDay", "WinterDesignDay", "Sunday", "Monday", "Tuesday",
     "Wednesday", "Thursday", "Friday", "Holiday", "CustomDay1", "CustomDay2"}

DesignDay ==
    << NameField("name"),
       ConstrField("type", "DesignDay", "DesignDay"),
       EnumField("day_type", DesignDayTypes),
       ModelField("dry_bulb_condition", <<"DryBulbCondition">>),
       ModelField("humidity_condition", <<"HumidityCondition">>),
       ModelField("wind_condition", <<"WindCondition">>),
       ModelField("sky_condition", <<"ASHRAEClearSky", "ASHRAETau">>) >>

LeafClasses ==
    {"DryBulbCondition", "HumidityCondition", "WindCondition",
     "ASHRAEClearSky", "ASHRAETau"}

Classes == LeafClasses \cup {"DesignDay"}

Fields(c) ==
    CASE c = "DryBulbCondition" -> DryBulbCondition
      [] c = "HumidityCondition" -> HumidityCondition
      [] c = "WindCondition" -> WindCondition
      [] c = "ASHRAEClearSky" -> ASHRAEClearSky
      [] c = "ASHRAETau" -> ASHRAETau
      [] c = "DesignDay" -> DesignDay

FieldNames(c) == {Fields(c)[i].name : i \in DOMAIN Fields(c)}

FieldOf(c, name) ==
    Fields(c)[CHOOSE i \in DOMAIN Fields(c) : Fields(c)[i].name = name]

\* ------------------------------------------------------ scalar validators
\* re.match('^<pattern>$', s): in Python, $ also matches just before a
\* newline that ends the string.
RegexMatch(pattern, s) == s = pattern \/ s = pattern \o "\n"

\* float(s) for the strings the inputs use: the literals Python parses.
StrFloat ==
    [s \in {"25", "85", "0.5", "0"} |->
        CASE s = "25" -> Tenths(25)
          [] s = "85" -> Tenths(85)
          [] s = "0.5" -> 5
          [] s = "0" -> 0]

\* A strict float: only a number passes.
FloatCoercibleStrict(v) == v.k = "num"

\* pydantic float_validator: float(v), a failure being a type error.
FloatCoercible(v) ==
    \/ v.k = "num"
    \/ v.k = "bool"
    \/ v.k = "str" /\ v.s \in DOMAIN StrFloat

PyFloat(v) ==
    CASE v.k = "num" -> v.n
      [] v.k = "bool" -> IF v.b THEN Tenths(1) ELSE 0
      [] v.k = "str" -> StrFloat[v.s]

BOOL_TRUE == {"1", "on", "t", "true", "y", "yes"}
BOOL_FALSE == {"0", "off", "f", "false", "n", "no"}

Ok(v) == [ok |-> TRUE, value |-> v, type |-> ""]
Bad(t) == [ok |-> FALSE, value |-> Required, type |-> t]

\* The validators of one scalar field, in pydantic's order: the type
\* validator first, then the constraints; the first failure is the field's error.
ValidateScalar(fd, v) ==
    CASE fd.kind = "float" ->
            IF ~FloatCoercible(v) THEN Bad("type_error.float")
            ELSE IF fd.hasGe /\ ~(PyFloat(v) >= fd.ge) THEN Bad("value_error.number.not_ge")
            ELSE IF fd.hasLe /\ ~(PyFloat(v) <= fd.le) THEN Bad("value_error.number.not_le")
            ELSE Ok(Num(PyFloat(v)))
      [] fd.kind = "constr" ->
            IF v.k \notin {"str", "num", "bool"} THEN Bad("type_error.str")
            ELSE IF v.k = "str" /\ RegexMatch(fd.pattern, v.s) THEN Ok(v)
            ELSE Bad("value_error.str.regex")
      [] fd.kind = "bool" ->
            IF v.k = "bool" THEN Ok(v)
            ELSE IF v.k = "num" /\ v.n \in {0, Tenths(1)} THEN Ok(Bool(v.n = Tenths(1)))
            ELSE IF v.k = "str" /\ v.s \in BOOL_TRUE THEN Ok(Bool(TRUE))
            ELSE IF v.k = "str" /\ v.s \in BOOL_FALSE THEN Ok(Bool(FALSE))
            ELSE Bad("type_error.bool")
      [] fd.kind = "enum" ->
            IF v.k = "str" /\ v.s \in fd.members THEN Ok(v) ELSE Bad("type_error.enum")
      [] fd.kind = "date" ->
            IF v.k = "date" THEN Ok(v) ELSE Bad("type_error.date")
      [] fd.kind = "str" ->
            IF v.k = "str" THEN Ok(v) ELSE Bad("type_error.str")

\* -------------------------------------------------------- model validation
None == [cls |-> "None", f |-> <<>>, set |-> {}]

Error(loc, type) == [loc |-> loc, type |-> type]

\* The errors of a condition reported without the condition's name.
PrefixDropped(name, errors) == errors

Prefix(name, errors) == {Error(<<name>> \o e.loc, e.type) : e \in errors}

RECURSIVE ValidateModel(_, _)

\* A field whose class is a model, or a Union of models: each class is tried
\* in the order of the annotation, the first that accepts the mapping gives
\* the value; when none does, the errors of all of them are reported.
ValidateSubModel(fd, m) ==
    LET rs == [i \in DOMAIN fd.classes |-> ValidateModel(fd.classes[i], m)]
        oks == {i \in DOMAIN rs : rs[i].ok}
    IN  IF oks # {}
        THEN [ok |-> TRUE,
              value |-> rs[CHOOSE i \in oks : \A j \in oks : i <= j].value,
              errors |-> {}, given |-> TRUE]
        ELSE [ok |-> FALSE, value |-> None,
              errors |-> Prefix(fd.name, UNION {rs[i].errors : i \in DOMAIN rs}),
              given |-> TRUE]

\* One field of a model against the input mapping m.
ValidateField(fd, m) ==
    IF fd.name \notin DOMAIN m
    THEN IF fd.required
         THEN [ok |-> FALSE, value |-> Required,
               errors |-> {Error(<<fd.name>>, "value_error.missing")}, given |-> FALSE]
         ELSE [ok |-> TRUE, value |-> fd.default, errors |-> {}, given |-> FALSE]
    ELSE IF fd.kind = "model"
    THEN ValidateSubModel(fd, m[fd.name])
    ELSE LET r == ValidateScalar(fd, m[fd.name])
         IN  [ok |-> r.ok, value |-> r.value,
              errors |-> IF r.ok THEN {} ELSE {Error(<<fd.name>>, r.type)},
              given |-> TRUE]

\* Validation that stops at the first field that fails.
ValidateModelFailFast(c, m) ==
    LET fs == Fields(c)
        rs == [i \in DOMAIN fs |-> ValidateField(fs[i], m)]
        bad == {i \in DOMAIN fs : ~rs[i].ok}
        at(name) == rs[CHOOSE i \in DOMAIN fs : fs[i].name = name]
    IN  IF bad = {}
        THEN [ok |-> TRUE,
              value |-> [cls |-> c,
                         f |-> [name \in FieldNames(c) |-> at(name).value],
                         set |-> {name \in FieldNames(c) : at(name).given}],
              errors |-> {}]
        ELSE [ok |-> FALSE, value |-> None,
              errors |-> rs[CHOOSE i \in bad : \A j \in bad : i <= j].errors]

\* The constructor on mapping m: every field is validated, the errors of all fields are
\* collected, and an instance is built only when there is none.
ValidateModel(c, m) ==
    LET fs == Fields(c)
        rs == [i \in DOMAIN fs |-> ValidateField(fs[i], m)]
        errors == UNION {rs[i].errors : i \in DOMAIN fs}
        at(name) == rs[CHOOSE i \in DOMAIN fs : fs[i].name = name]
    IN  IF errors = {}
        THEN [ok |-> TRUE,
              value |-> [cls |-> c,
                         f |-> [name \in FieldNames(c) |-> at(name).value],
                         set |-> {name \in FieldNames(c) : at(name).given}],
              errors |-> {}]
        ELSE [ok |-> FALSE, value |-> None, errors |-> errors]

\* ------------------------------------------------------------ serialization
RECURSIVE Dict(_, _)

\* Serialization that leaves out the fields the caller did not set
\* (exclude_unset), whatever their value.
DictExcludeUnset(i, includeDefaults) ==
    LET keys == {name \in FieldNames(i.cls) : includeDefaults \/ name \in i.set}
    IN  [name \in keys |->
            IF FieldOf(i.cls, name).kind = "model"
            THEN Dict(i.f[name], includeDefaults)
            ELSE i.f[name]]

\* Model.dict(exclude_defaults = ~includeDefaults): a field is left out when
\* it is not required and its value equals the declared default; a value that
\* is a model is serialized the same way.
Dict(i, includeDefaults) ==
    LET keys == {name \in FieldNames(i.cls) :
                    \/ includeDefaults
                    \/ FieldOf(i.cls, name).required
                    \/ i.f[name] # FieldOf(i.cls, name).default}
    IN  [name \in keys |->
            IF FieldOf(i.cls, name).kind = "model"
            THEN Dict(i.f[name], includeDefaults)
            ELSE i.f[name]]

\* Model.__eq__: two instances are equal when their dict() are.
ModelEq(a, b) == Dict(a, TRUE) = Dict(b, TRUE)

\* ------------------------------------------------------- attribute assignment
\* Assignment that rebuilds the instance from the assigned field alone, the
\* other optional fields going back to their defaults.
SetAttrReset(i, name, v) ==
    IF name \notin FieldNames(i.cls)
    THEN i
    ELSE [i EXCEPT !.f = [x \in FieldNames(i.cls) |->
                             IF x = name THEN v
                             ELSE IF FieldOf(i.cls, x).required THEN i.f[x]
                             ELSE FieldOf(i.cls, x).default],
                   !.set = @ \cup {name}]

\* Model.__setattr__ under the default Config (allow_mutation = True,
\* validate_assignment = False): a declared field takes the value as it is;
\* an undeclared name raises and changes nothing.
SetAttr(i, name, v) ==
    IF name \notin FieldNames(i.cls)
    THEN i
    ELSE [i EXCEPT !.f[name] = v, !.set = @ \cup {name}]

\* Assignment to a field of a condition the DesignDay owns (d.<cond>.<name> = v).
SetNestedAttr(d, cond, name, v) ==
    [d EXCEPT !.f[cond] = SetAttr(@, name, v)]

\* ------------------------------------------------------------------ inputs
\* Marks a key the mapping does not hold; Strip removes the marked keys.
Absent == [k |-> "absent", n |-> 0, s |-> "", b |-> FALSE]

Strip(m) == [key \in {x \in DOMAIN m : m[x].k # "absent"} |-> m[key]]

Merge(a, b) ==
    [key \in DOMAIN a \cup DOMAIN b |-> IF key \in DOMAIN a THEN a[key] ELSE b[key]]

\* The discriminator tags tried on the model called name.
TypeTags(name) == {Absent, Str(name), Str(name \o "\n"), Str("Other")}

\* Numbers at, just inside and just outside the bounds lo and hi, in tenths.
Around(lo, hi) ==
    {Num(n) : n \in (lo - Margin .. lo) \cup (hi .. hi + Margin)}
        \cup {Num((lo + hi) \div 2)}

\* Numbers at and below the lower bound lo of a field with no upper bound.
AtLeast(lo) == {Num(n) : n \in lo - Margin .. lo} \cup {Num(lo + 50)}

DryBulbInputs ==
    {Strip([type |-> t, dry_bulb_max |-> a, dry_bulb_range |-> r]) :
        t \in TypeTags("DryBulbCondition"),
        a \in Around(Tenths(-90), Tenths(70)) \cup {Str("25"), Str("85"), Str("hot"), Absent},
        r \in AtLeast(0) \cup {Absent}}

HumidityInputs ==
    {Strip([type |-> t, humidity_type |-> h, humidity_value |-> v,
            barometric_pressure |-> p, rain |-> r, snow_on_ground |-> g]) :
        t \in {Absent, Str("HumidityCondition"), Str("Other")},
        h \in {Str("Wetbulb"), Str("Enthalpy"), Str("Foo"), Absent},
        v \in {Num(Tenths(-5)), Str("humid"), Absent},
        p \in Around(Tenths(31000), Tenths(120000)) \cup {Num(Tenths(101325)), Absent},
        r \in {Bool(TRUE), Bool(FALSE), Absent},
        g \in {Bool(FALSE), Absent}}

WindInputs ==
    {Strip([type |-> t, wind_speed |-> w, wind_direction |-> d]) :
        t \in {Absent, Str("WindCondition"), Str("Other")},
        w \in Around(0, Tenths(40)) \cup {Str("25"), Str("gale"), Absent},
        d \in Around(0, Tenths(360)) \cup {Str("0"), Absent}}

ClearSkyInputs ==
    {Strip([type |-> t, date |-> d, clearness |-> c, daylight_savings |-> s]) :
        t \in TypeTags("ASHRAEClearSky"),
        d \in {DateV(721), Absent},
        c \in Around(0, 12) \cup {Str("0.5"), Str("clear"), Absent},
        s \in {Bool(TRUE), Bool(FALSE), Absent}}

TauInputs ==
    {Strip([type |-> t, date |-> d, tau_b |-> b, tau_d |-> c, daylight_savings |-> s]) :
        t \in TypeTags("ASHRAETau"),
        d \in {DateV(721), Str("July")},
        b \in Around(0, 12) \cup {Absent},
        c \in Around(0, Tenths(3)) \cup {Str("thick")},
        s \in {Bool(TRUE), Absent}}

\* The sky_condition mappings tried inside a DesignDay: both field sets, with
\* every tag, so that the tag and the fields can disagree.
SkyInputs ==
    {Strip([type |-> t, date |-> DateV(721), clearness |-> c, tau_b |-> b,
            tau_d |-> b, daylight_savings |-> Absent]) :
        t \in {Absent, Str("ASHRAEClearSky"), Str("ASHRAETau"),
               Str("ASHRAEClearSky\n"), Str("Other")},
        c \in {Num(10), Num(12 + Margin), Absent},
        b \in {Num(5), Num(12 + Margin), Absent}}

DryBulbSamples ==
    {Strip([type |-> t, dry_bulb_max |-> a, dry_bulb_range |-> Num(Tenths(10))]) :
        t \in {Absent, Str("Other")},
        a \in {Num(Tenths(35)), Num(Tenths(70) + Margin)}}

HumiditySamples ==
    {Strip([humidity_type |-> Str("Wetbulb"), humidity_value |-> Num(Tenths(20)),
            barometric_pressure |-> p, rain |-> r]) :
        p \in {Absent, Num(Tenths(101325)), Num(Tenths(120000) + Margin)},
        r \in {Absent, Bool(TRUE)}}

WindSamples ==
    {Strip([wind_speed |-> w, wind_direction |-> d]) :
        w \in {Num(Tenths(5)), Num(Tenths(40) + Margin)},
        d \in {Absent, Num(0), Num(Tenths(90))}}

DayTypeInputs ==
    {Str(s) : s \in DesignDayTypes \cup {"Saturday", "Funday"}} \cup {Absent}

DesignDayMapping(n, t, y, a, h, w, k) ==
    Merge(Strip([name |-> n, type |-> t, day_type |-> y]),
          [dry_bulb_condition |-> a, humidity_condition |-> h,
           wind_condition |-> w, sky_condition |-> k])

\* Every name, tag and day type over a few conditions, and every sampled
\* condition under a few names, tags and day types.
DesignDayInputs ==
    {DesignDayMapping(n, t, y, a, h, w, k) :
        n \in {Str("dd1"), Absent},
        t \in {Absent, Str("DesignDay\n"), Str("Other")},
        y \in DayTypeInputs,
        a \in {x \in DryBulbSamples : "type" \notin DOMAIN x},
        h \in {x \in HumiditySamples : "rain" \notin DOMAIN x
                                       /\ "barometric_pressure" \notin DOMAIN x},
        w \in {x \in WindSamples : "wind_direction" \notin DOMAIN x},
        k \in {x \in SkyInputs : "type" \in DOMAIN x /\ x["type"].s = "ASHRAETau"
                                 /\ "clearness" \notin DOMAIN x
                                 /\ "tau_b" \in DOMAIN x}}
    \cup
    {DesignDayMapping(Str("dd1"), Absent, y, a, h, w, k) :
        y \in {Str("Holiday"), Str("Funday")},
        a \in DryBulbSamples, h \in HumiditySamples,
        w \in WindSamples, k \in SkyInputs}

Inputs(c) ==
    CASE c = "DryBulbCondition" -> DryBulbInputs
      [] c = "HumidityCondition" -> HumidityInputs
      [] c = "WindCondition" -> WindInputs
      [] c = "ASHRAEClearSky" -> ClearSkyInputs
      [] c = "ASHRAETau" -> TauInputs
      [] c = "DesignDay" -> DesignDayInputs

\* The values a caller assigns to a field after construction.
AssignValues(fd) ==
    CASE fd.kind = "float" -> {Num(Tenths(999)), Num(Tenths(1))}
      [] fd.kind = "bool" -> {Bool(TRUE)}
      [] fd.kind = "constr" -> {Str("Other")}
      [] fd.kind = "enum" -> {Str("Funday")}
      [] OTHER -> {}

\* ------------------------------------------------------------- the machine
NoResult == [ok |-> FALSE, value |-> None, errors |-> {}]

Init ==
    /\ cls \in Classes
    /\ input \in Inputs(cls)
    /\ pc = "input"
    /\ result = NoResult
    /\ inst = None
    /\ ser = <<>>
    /\ incl = FALSE
    /\ re = NoResult
    /\ nAssign = 0

\* m = Model(**input)
Validate ==
    /\ pc = "input"
    /\ result' = ValidateModel(cls, input)
    /\ inst' = result'.value
    /\ pc' = "validated"
    /\ UNCHANGED <<cls, input, ser, incl, re, nAssign>>

\* m.<name> = v on a leaf instance
Assign ==
    /\ pc = "validated" /\ result.ok /\ cls \in LeafClasses
    /\ nAssign < MaxAssign
    /\ \E name \in FieldNames(cls) : \E v \in AssignValues(FieldOf(cls, name)) :
          inst' = SetAttr(inst, name, v)
    /\ nAssign' = nAssign + 1
    /\ UNCHANGED <<cls, input, pc, result, ser, incl, re>>

\* d.<cond>.<name> = v on a condition of a DesignDay
AssignNested ==
    /\ pc = "validated" /\ result.ok /\ cls = "DesignDay"
    /\ nAssign < MaxAssign
    /\ \E cond \in {"dry_bulb_condition", "humidity_condition",
                    "wind_condition", "sky_condition"} :
       \E name \in FieldNames(inst.f[cond].cls) :
          /\ FieldOf(inst.f[cond].cls, name).kind = "float"
          /\ inst' = SetNestedAttr(inst, cond, name, Num(Tenths(999)))
    /\ nAssign' = nAssign + 1
    /\ UNCHANGED <<cls, input, pc, result, ser, incl, re>>

\* ser = m.dict(exclude_defaults = ~includeDefaults)
Serialize ==
    /\ pc = "validated" /\ result.ok
    /\ \E includeDefaults \in BOOLEAN :
          /\ ser' = Dict(inst, includeDefaults)
          /\ incl' = includeDefaults
    /\ pc' = "serialized"
    /\ UNCHANGED <<cls, input, result, inst, re, nAssign>>

\* re = Model(**ser)
Revalidate ==
    /\ pc = "serialized"
    /\ re' = ValidateModel(cls, ser)
    /\ pc' = "revalidated"
    /\ UNCHANGED <<cls, input, result, inst, ser, incl, nAssign>>

Next == Validate \/ Assign \/ AssignNested \/ Serialize \/ Revalidate

Spec == Init /\ [][Next]_vars

TypeOK ==
    /\ cls \in Classes
    /\ pc \in {"input", "validated", "serialized", "revalidated"}
    /\ nAssign \in 0 .. MaxAssign
    /\ result.ok \in BOOLEAN

\* =================================================================== claims
Conditions ==
    {"dry_bulb_condition", "humidity_condition", "wind_condition", "sky_condition"}

SkyVariants == {"ASHRAEClearSky", "ASHRAETau"}

\* The top-level fields of DesignDay mapping m that violate their declaration,
\* each judged on its own.
ViolatingFields(m) ==
    {name \in {"name"} : name \notin DOMAIN m}
    \cup {name \in {"type"} :
            name \in DOMAIN m /\ m[name].s \notin {"DesignDay", "DesignDay\n"}}
    \cup {name \in {"day_type"} :
            name \notin DOMAIN m \/ m[name].s \notin DesignDayTypes}
    \cup {name \in {"dry_bulb_condition"} : ~ValidateModel("DryBulbCondition", m[name]).ok}
    \cup {name \in {"humidity_condition"} : ~ValidateModel("HumidityCondition", m[name]).ok}
    \cup {name \in {"wind_condition"} : ~ValidateModel("WindCondition", m[name]).ok}
    \cup {name \in {"sky_condition"} :
            \A v \in SkyVariants : ~ValidateModel(v, m[name]).ok}

\* ---------------------------------------------------------------------- C1
\* C1: serializing a valid instance with the defaults included and validating
\* the mapping succeeds and gives an instance equal to the first one, with the
\* same sky-condition variant in a DesignDay.
C1_RoundTrip ==
    (pc = "revalidated" /\ incl /\ nAssign = 0) =>
        /\ re.ok
        /\ ModelEq(re.value, inst)
        /\ re.value.cls = inst.cls
        /\ cls = "DesignDay" =>
              /\ re.value.f["sky_condition"].cls = inst.f["sky_condition"].cls
              /\ re.value.f["sky_condition"].f = inst.f["sky_condition"].f
              /\ re.value.f["day_type"] = inst.f["day_type"]

C1_Witness ==
    /\ pc = "revalidated" /\ incl /\ nAssign = 0 /\ cls = "DesignDay"
    /\ inst.f["sky_condition"].cls = "ASHRAETau"
    /\ "type" \notin DOMAIN input["sky_condition"]
    /\ re.ok

\* ---------------------------------------------------------------------- C2
\* The day types the specification lists.
SpecDayTypes ==
    {"SummerDesignDay", "WinterDesignDay", "Sunday", "Monday", "Tuesday",
     "Wednesday", "Thursday", "Friday", "Saturday", "Holiday", "CustomDay1",
     "CustomDay2"}

\* C2: DesignDay validation accepts a day_type if and only if it is one of the
\* twelve listed values, Saturday among them.
C2_DayTypeAccepted ==
    (pc = "validated" /\ cls = "DesignDay" /\ "day_type" \in DOMAIN input
        /\ ViolatingFields(input) \subseteq {"day_type"}) =>
        (result.ok <=> input["day_type"].s \in SpecDayTypes)

C5_TypeIsModelName ==
    (pc = "validated" /\ nAssign = 0) =>
        /\ result.ok => inst.f["type"] = Str(cls)
        /\ ("type" \in DOMAIN input /\ input["type"] # Str(cls)) => ~result.ok

\* ---------------------------------------------------------------------- C4
\* The fields of leaf instance b whose value is not the one in a.
LeafChanged(a, b) == {name \in DOMAIN a.f : a.f[name] # b.f[name]}

\* The fields of instance b, or of the conditions it owns, that differ from a.
Changed(a, b) ==
    IF a.cls = "DesignDay"
    THEN UNION {{<<c, name>> : name \in LeafChanged(a.f[c], b.f[c])} : c \in Conditions}
            \cup {<<name>> : name \in {"name", "type", "day_type"} \cap LeafChanged(a, b)}
    ELSE {<<name>> : name \in LeafChanged(a, b)}

\* Whether the value held by field name of leaf instance i meets the field's
\* declared constraint.
Satisfies(i, name) == ValidateScalar(FieldOf(i.cls, name), i.f[name]).ok

SpecBounds ==
    [dry_bulb_max |-> [lo |-> -900, hi |-> 700, hasHi |-> TRUE],
     dry_bulb_range |-> [lo |-> 0, hi |-> 0, hasHi |-> FALSE],
     barometric_pressure |-> [lo |-> 310000, hi |-> 1200000, hasHi |-> TRUE],
     wind_speed |-> [lo |-> 0, hi |-> 400, hasHi |-> TRUE],
     wind_direction |-> [lo |-> 0, hi |-> 3600, hasHi |-> TRUE],
     clearness |-> [lo |-> 0, hi |-> 12, hasHi |-> TRUE],
     tau_b |-> [lo |-> 0, hi |-> 12, hasHi |-> TRUE],
     tau_d |-> [lo |-> 0, hi |-> 30, hasHi |-> TRUE]]

BoundedFields(c) == FieldNames(c) \cap DOMAIN SpecBounds

RequiredPresent(c, m) ==
    \A i \in DOMAIN Fields(c) : Fields(c)[i].required => Fields(c)[i].name \in DOMAIN m

\* The number n lies in the closed range declared for field name.
Within(name, n) ==
    /\ SpecBounds[name].lo <= n
    /\ SpecBounds[name].hasHi => n <= SpecBounds[name].hi

\* The value mapping m supplies for the bounded field name lies in its range
\* (a field that is left out takes its default, which does).
InRange(name, m) ==
    name \in DOMAIN m =>
        /\ m[name].k \in {"num", "str"}
        /\ m[name].k = "num" => Within(name, m[name].n)
        /\ m[name].k = "str" =>
              /\ m[name].s \in {"25", "85", "0.5", "0"}
              /\ Within(name, StrFloat[m[name].s])

\* C7 as stated: with all required fields present, a leaf model validates if
\* and only if every bounded field lies in its closed range.
C7_BoundsDecide ==
    (pc = "validated" /\ cls \in LeafClasses /\ RequiredPresent(cls, input)) =>
        (result.ok <=> \A name \in BoundedFields(cls) : InRange(name, input))

\* The fields of mapping m that carry no bound are all valid.
OthersValid(c, m) ==
    \A name \in (FieldNames(c) \ DOMAIN SpecBounds) \cap DOMAIN m :
        ValidateScalar(FieldOf(c, name), m[name]).ok

\* C7 amended: with all required fields present and every field that carries
\* no bound (the discriminator, the enumeration, the date, the booleans,
\* humidity_value) valid, a leaf model validates if and only if every bounded
\* field lies in its closed range, the boundary values included; on success the
\* instance holds the numbers supplied, and a field out of its range is named
\* by an error.
C7_BoundsInclusive ==
    (pc = "validated" /\ cls \in LeafClasses /\ RequiredPresent(cls, input)
        /\ OthersValid(cls, input)) =>
        /\ result.ok <=> \A name \in BoundedFields(cls) : InRange(name, input)
        /\ result.ok =>
              \A name \in BoundedFields(cls) \cap DOMAIN input :
                  /\ input[name].k = "num" => result.value.f[name] = input[name]
                  /\ input[name].k = "str" =>
                        result.value.f[name] = Num(StrFloat[input[name].s])
        /\ \A name \in BoundedFields(cls) :
              ~InRange(name, input) => \E e \in result.errors : e.loc = <<name>>

\* dry_bulb_max at its upper boundary 70 is accepted and kept.
C7_Witness ==
    /\ pc = "validated" /\ cls = "DryBulbCondition" /\ result.ok
    /\ {"dry_bulb_max", "dry_bulb_range"} \subseteq DOMAIN input
    /\ input["dry_bulb_max"] = Num(700)
    /\ input["dry_bulb_range"] = Num(0)
    /\ result.value.f["dry_bulb_max"] = Num(700)

\* ---------------------------------------------------------------------- C8
\* The defaults the specification declares for the optional fields.
SpecDefaults ==
    [barometric_pressure |-> Num(1013250), rain |-> Bool(FALSE),
     snow_on_ground |-> Bool(FALSE), wind_direction |-> Num(0),
     daylight_savings |-> Bool(FALSE)]

\* Mapping m, the partial serialization of leaf instance i, holds an optional
\* field exactly when the field's value is not its default.
OmitsByValue(i, m) ==
    /\ \A name \in FieldNames(i.cls) \cap DOMAIN SpecDefaults :
          name \in DOMAIN m <=> i.f[name] # SpecDefaults[name]
    /\ "type" \in DOMAIN m <=> i.f["type"] # Str(i.cls)
    /\ \A name \in DOMAIN m : m[name] = i.f[name]

\* C8: serialization without the defaults holds a declared optional field if
\* and only if the field's value differs from its declared default, whether
\* the value was left unset or was supplied equal to the default.
C8_OmitsDefaultsByValue ==
    (pc \in {"serialized", "revalidated"} /\ ~incl) =>
        /\ cls \in LeafClasses => OmitsByValue(inst, ser)
        /\ cls = "DesignDay" =>
              \A c \in Conditions : OmitsByValue(inst.f[c], ser[c])

\* wind_direction was supplied as 0, the default, and is left out.
C8_Witness ==
    /\ pc = "serialized" /\ ~incl /\ cls = "WindCondition" /\ nAssign = 0
    /\ "wind_direction" \in DOMAIN input
    /\ inst.f["wind_direction"] = Num(0)
    /\ "wind_direction" \in inst.set
    /\ "wind_direction" \notin DOMAIN ser
    /\ "wind_speed" \in DOMAIN ser

\* ---------------------------------------------------------------------- C9
\* The model a condition mapping is meant for: the declared class, and for
\* sky_condition the variant its type names.
Meant(c, m) ==
    CASE c = "dry_bulb_condition" -> "DryBulbCondition"
      [] c = "humidity_condition" -> "HumidityCondition"
      [] c = "wind_condition" -> "WindCondition"
      [] c = "sky_condition" -> m["type"].s

\* DesignDay mapping m violates nothing but field name of condition c.
OnlyViolation(m, c, name) ==
    /\ ViolatingFields(m) = {c}
    /\ c = "sky_condition" =>
          "type" \in DOMAIN m[c] /\ m[c]["type"].s \in SkyVariants
    /\ {e.loc : e \in ValidateModel(Meant(c, m[c]), m[c]).errors} = {<<name>>}

SingleViolations ==
    {p \in Conditions \X {"dry_bulb_max", "barometric_pressure", "wind_speed",
                          "clearness", "tau_b"} :
        OnlyViolation(input, p[1], p[2])}

C9_WitnessLeaf ==
    /\ pc = "validated" /\ cls = "DesignDay"
    /\ <<"wind_condition", "wind_speed">> \in SingleViolations
    /\ {e.loc : e \in result.errors} = {<<"wind_condition", "wind_speed">>}

\* --------------------------------------------------------------------- C10
FloatFields(c) == {name \in FieldNames(c) : FieldOf(c, name).kind = "float"}

\* The strings of the inputs that Python's float() parses, with their values.
NumericLiterals == [s \in {"25", "85", "0.5", "0"} |->
                       CASE s = "25" -> 250 [] s = "85" -> 850
                         [] s = "0.5" -> 5 [] s = "0" -> 0]

\* C10 as stated: a string supplied for a float field makes validation fail
\* with a type-mismatch error, and no instance is built.
C10_StringRejected ==
    (pc = "validated" /\ cls \in LeafClasses /\ RequiredPresent(cls, input)) =>
        \A name \in FloatFields(cls) \cap DOMAIN input :
            (input[name].k = "str"
                /\ \A x \in DOMAIN input \ {name} :
                      ValidateScalar(FieldOf(cls, x), input[x]).ok) =>
                /\ ~result.ok
                /\ inst = None
                /\ Error(<<name>>, "type_error.float") \in result.errors

\* C10 amended: a string that does not parse as a number, supplied for a float
\* field, makes validation fail with a type-mismatch error and no instance is
\* built; a string that parses as a number is coerced to that number, which is
\* then held to the field's bounds like any number.
C10_UnparsableStringRejected ==
    (pc = "validated" /\ cls \in LeafClasses) =>
        \A name \in FloatFields(cls) \cap DOMAIN input :
            input[name].k = "str" =>
                IF input[name].s \in DOMAIN NumericLiterals
                THEN /\ Error(<<name>>, "type_error.float") \notin result.errors
                     /\ result.ok => result.value.f[name] = Num(NumericLiterals[input[name].s])
                     /\ (name \in DOMAIN SpecBounds
                            /\ ~Within(name, NumericLiterals[input[name].s])) => ~result.ok
                ELSE /\ ~result.ok
                     /\ inst = None
                     /\ Error(<<name>>, "type_error.float") \in result.errors

C10_Witness ==
    /\ pc = "validated" /\ cls = "DryBulbCondition"
    /\ "dry_bulb_max" \in DOMAIN input
    /\ input["dry_bulb_max"] = Str("hot")
    /\ ~result.ok /\ inst = None
    /\ Error(<<"dry_bulb_max">>, "type_error.float") \in result.errors

C10_WitnessCoerced ==
    /\ pc = "validated" /\ cls = "DryBulbCondition"
    /\ "dry_bulb_max" \in DOMAIN input
    /\ input["dry_bulb_max"] = Str("25")
    /\ result.ok /\ inst.f["dry_bulb_max"] = Num(250)
====
